---- MODULE Spec2Model ----
(***************************************************************************)
(* Coordination core of the Claude Coordination System: the shared state   *)
(* document system-state.json, the worker processes (WorkerCore) and the   *)
(* coordinator operations (CoordinatorCore) that read, modify and rewrite  *)
(* it.  Every await on loadSystemState / saveSystemState is one step, so   *)
(* the interleavings of the processes' reads and writes are explored.      *)
(***************************************************************************)
EXTENDS Integers, Sequences, FiniteSets, TLC

\* ------------------------------------------------------------------ bounds
\* Asynchronous environment events of one run: timer heartbeats, shutdown
\* requests, operator commands and API calls.  (Handler failures and lease
\* timeouts are bounded by options.maxRetries.)
MaxEvents == 2

\* Times the clock advances by more than options.staleWorkerTimeout.
MaxTicks == 1

\* ------------------------------------------------------- program constants
\* options.staleWorkerTimeout of the CoordinatorCore constructor, in ms.
StaleWorkerTimeout == 60000

\* options.maxRetries of the WorkerCore constructor.
DefaultMaxRetries == 3

\* JavaScript undefined for a numeric field.
Undefined == -1

Workers == {"w1", "w2"}

\* Absent key of file_locks.
NoLock == "none"

\* ------------------------------------------------------- configurations
DefaultDependencies ==
  [GRUP1_TYPESCRIPT |->
     [blocked_by |-> <<>>,
      files |-> <<"tsconfig.json", "src/**/*.ts", "src/**/*.tsx">>],
   GRUP2_ESLINT |->
     [blocked_by |-> <<"GRUP1_TYPESCRIPT">>,
      files |-> <<"eslint.config.*", "src/**/*">>],
   GRUP3_BUNDLE |->
     [blocked_by |-> <<>>,
      files |-> <<"package.json", "package-lock.json", "next.config.*">>]]

\* claude-coord.json as the README shows it and createProjectConfig writes it:
\* prerequisites are named under the key "dependencies".
ReadmeGroups ==
  [TYPESCRIPT |->
     [dependencies |-> <<>>,
      files |-> <<"tsconfig.json", "src/**/*.ts", "src/**/*.tsx">>],
   ESLINT |->
     [dependencies |-> <<"TYPESCRIPT">>,
      files |-> <<"eslint.config.js", "src/**/*">>]]

\* A claude-coord.json whose groups block each other.
CyclicGroups ==
  [LINT |->
     [blocked_by |-> <<"FORMAT">>, files |-> <<"eslint.config.js">>],
   FORMAT |->
     [blocked_by |-> <<"LINT">>, files |-> <<"package.json">>]]

\* A claude-coord.json with the default bundle group (its two tasks lock
\* package.json with next.config.*, then package.json with
\* package-lock.json) and a second group that works on package.json.
SharedFilesGroups ==
  [GRUP3_BUNDLE |->
     [blocked_by |-> <<>>,
      files |-> <<"package.json", "package-lock.json", "next.config.*">>],
   AUDIT |->
     [blocked_by |-> <<>>, files |-> <<"package.json">>]]

Files ==
  {"tsconfig.json", "src/**/*.ts", "src/**/*.tsx", "eslint.config.*",
   "eslint.config.js", "src/**/*", "package.json", "package-lock.json",
   "next.config.*"}

\* loadDependencies: config.groups of claude-coord.json when the file exists,
\* the default structure otherwise.
loadDependencies(configFile) ==
  CASE configFile = "claude-coord.json" -> ReadmeGroups
    [] configFile = "claude-coord.json with a cycle" -> CyclicGroups
    [] configFile = "claude-coord.json with shared files" -> SharedFilesGroups
    [] OTHER -> DefaultDependencies

\* One run: the project configuration, for each worker process started its
\* --group and the maxRetries option given to the WorkerCore constructor, and
\* the processes the operator may interrupt.  NotStarted marks a worker id no
\* process is started for.
NotStarted == "not started"

Launch(configFile, g1, g2, retries, interrupted) ==
  [configFile |-> configFile, group |-> [w1 |-> g1, w2 |-> g2],
   maxRetries |-> retries, signals |-> interrupted]

\* Two worker processes: dependent groups, one group worked on by both, and
\* two groups that block each other.
Launches ==
  {Launch("none", "GRUP1_TYPESCRIPT", "GRUP2_ESLINT", 1,
          Workers),
   Launch("claude-coord.json", "ESLINT", "ESLINT", 0, {}),
   Launch("claude-coord.json with a cycle", "LINT", "FORMAT", 0, {})}

\* One worker process (waiting for a group nobody works on, or working); the
\* other id is used through the coordinator only.
OperatorLaunches ==
  {Launch("none", "GRUP2_ESLINT", NotStarted, 0, Workers),
   Launch("claude-coord.json", "ESLINT", NotStarted, DefaultMaxRetries,
          Workers)}

\* f.includes('.ts')
IncludesTs(f) == f \in {"src/**/*.ts", "src/**/*.tsx"}

\* `Process ${this.groupId} tasks`
ProcessTasksName(groupId) ==
  CASE groupId = "TYPESCRIPT" -> "Process TYPESCRIPT tasks"
    [] groupId = "ESLINT" -> "Process ESLINT tasks"
    [] OTHER -> "Process tasks"

generateTasks(groupId, groupConfig) ==
  CASE groupId = "GRUP1_TYPESCRIPT" ->
         <<[name |-> "Fix TypeScript syntax errors",
            files |-> SelectSeq(groupConfig.files, IncludesTs)],
           [name |-> "Validate build process",
            files |-> <<"tsconfig.json">>]>>
    [] groupId = "GRUP2_ESLINT" ->
         <<[name |-> "Analyze ESLint warnings", files |-> groupConfig.files]>>
    [] groupId = "GRUP3_BUNDLE" ->
         <<[name |-> "Analyze bundle size",
            files |-> <<"package.json", "next.config.*">>],
           [name |-> "Clean unused dependencies",
            files |-> <<"package.json", "package-lock.json">>]>>
    [] OTHER ->
         <<[name |-> ProcessTasksName(groupId), files |-> groupConfig.files]>>

getTaskCount(groupId, groupConfig) == Len(generateTasks(groupId, groupConfig))

Range(s) == {s[i] : i \in 1..Len(s)}

\* ------------------------------------------------ the state document
\* active_workers is a JavaScript object: its keys keep insertion order, which
\* Object.values and find observe.  It is a sequence of records carrying id.
initialState ==
  [active_workers |-> <<>>,
   file_locks |-> [f \in Files |-> NoLock],
   task_progress |-> [total_groups |-> 0, completed_groups |-> 0,
                      active_groups |-> 0]]

HasWorker(state, id) ==
  \E i \in 1..Len(state.active_workers) : state.active_workers[i].id = id

WorkerIndex(state, id) ==
  CHOOSE i \in 1..Len(state.active_workers) : state.active_workers[i].id = id

GetWorker(state, id) == state.active_workers[WorkerIndex(state, id)]

\* state.active_workers[id] = rec
PutWorker(state, id, rec) ==
  IF HasWorker(state, id)
  THEN [state EXCEPT !.active_workers[WorkerIndex(state, id)] = rec]
  ELSE [state EXCEPT !.active_workers = Append(@, rec)]

\* delete state.active_workers[id]
DeleteWorker(state, id) ==
  [state EXCEPT !.active_workers = SelectSeq(@, LAMBDA r : r.id # id)]

\* Object.values(state.active_workers).find(w => w.group === group)
FindByGroup(state, group) ==
  LET hits == {i \in 1..Len(state.active_workers) :
                 state.active_workers[i].group = group}
  IN IF hits = {} THEN 0
     ELSE CHOOSE i \in hits : \A j \in hits : i <= j

LocksOf(state, id) == {f \in Files : state.file_locks[f] = id}

\* ------------------------------------------------ dependency resolver
\* A resolver for which a group no worker registered for does not block.
CheckDependenciesUnregisteredPass(state, deps, groupId) ==
  IF groupId \notin DOMAIN deps \/ "blocked_by" \notin DOMAIN deps[groupId]
  THEN [canProceed |-> TRUE, blockers |-> <<>>]
  ELSE LET Blocks(g) ==
             /\ FindByGroup(state, g) # 0
             /\ state.active_workers[FindByGroup(state, g)].status # "completed"
           blockers == SelectSeq(deps[groupId].blocked_by, Blocks)
       IN [canProceed |-> Len(blockers) = 0, blockers |-> blockers]

\* WorkerCore.checkDependencies, on the state it loaded.
WorkerCheckDependencies(state, deps, groupId) ==
  IF groupId \notin DOMAIN deps \/ "blocked_by" \notin DOMAIN deps[groupId]
  THEN [canProceed |-> TRUE, blockers |-> <<>>]
  ELSE LET Blocks(g) ==
             \/ FindByGroup(state, g) = 0
             \/ state.active_workers[FindByGroup(state, g)].status # "completed"
           blockers == SelectSeq(deps[groupId].blocked_by, Blocks)
       IN [canProceed |-> Len(blockers) = 0, blockers |-> blockers]

\* CoordinatorCore.checkDependencies, on the state it loaded.
CoordCheckDependencies(state, deps, groupId) ==
  IF groupId \notin DOMAIN deps
  THEN [canProceed |-> TRUE, blockers |-> <<>>]
  ELSE LET blocked_by == IF "blocked_by" \in DOMAIN deps[groupId]
                         THEN deps[groupId].blocked_by ELSE <<>>
           Blocks(g) ==
             \/ FindByGroup(state, g) = 0
             \/ state.active_workers[FindByGroup(state, g)].status # "completed"
           blockers == SelectSeq(blocked_by, Blocks)
       IN [canProceed |-> Len(blockers) = 0, blockers |-> blockers]

\* ------------------------------------------------ worker-side writes
\* The record registerWithCoordinator builds.
WorkerInfo(id, groupId, groupConfig, time) ==
  [id |-> id, group |-> groupId, status |-> "initializing",
   last_heartbeat |-> time, current_files |-> <<>>,
   progress |-> [total_tasks |-> getTaskCount(groupId, groupConfig),
                 completed_tasks |-> 0, current_task |-> "null"]]

\* registerWithCoordinator between its load and its save.
Registered(state, id, groupId, groupConfig, time) ==
  [PutWorker(state, id, WorkerInfo(id, groupId, groupConfig, time))
     EXCEPT !.task_progress.active_groups = @ + 1]

\* Object.assign(state.active_workers[id], {status, last_heartbeat, ...extra}):
\* extra is a record holding any of current_files and progress.
StatusAssigned(state, id, status, time, extra) ==
  LET old == GetWorker(state, id)
      new == [old EXCEPT
                !.status = status,
                !.last_heartbeat = time,
                !.current_files =
                   IF "current_files" \in DOMAIN extra
                   THEN extra.current_files ELSE @,
                !.progress =
                   IF "progress" \in DOMAIN extra THEN extra.progress ELSE @]
  IN PutWorker(state, id, new)

\* The additionalData of executeTask's updateStatus: progress is replaced as a
\* whole, so total_tasks and completed_tasks become undefined.
TaskStatusData(task) ==
  [current_files |-> task.files,
   progress |-> [total_tasks |-> Undefined, completed_tasks |-> Undefined,
                 current_task |-> task.name]]

NoData == [none |-> TRUE]

\* acquireFileLocks from file k on, working on its loaded copy: a file the copy
\* shows locked by another worker stops the loop (waitForFileAvailability);
\* every other file is written into the copy.
RECURSIVE AcquireFrom(_, _, _, _)
AcquireFrom(state, files, k, id) ==
  IF k > Len(files) THEN [state |-> state, k |-> k]
  ELSE IF state.file_locks[files[k]] \notin {NoLock, id}
       THEN [state |-> state, k |-> k]
       ELSE AcquireFrom([state EXCEPT !.file_locks[files[k]] = id],
                        files, k + 1, id)

\* A release that deletes no entry.
ReleasedNothing(state, files, id) == state

\* A release that does not look at the holder.
ReleasedUnchecked(state, files, id) ==
  [state EXCEPT !.file_locks =
     [f \in Files |-> IF f \in files THEN NoLock ELSE @[f]]]

\* releaseFileLocks between its load and its save.
Released(state, files, id) ==
  [state EXCEPT !.file_locks =
     [f \in Files |-> IF f \in files /\ @[f] = id THEN NoLock ELSE @[f]]]

\* The files releaseFileLocks drops from this.acquiredLocks.
ReleasedFiles(state, files, id) == {f \in files : state.file_locks[f] = id}

\* executeTasks after executeTask: progress.completed_tasks = i + 1.
ProgressUpdated(state, id, done) ==
  PutWorker(state, id,
            [GetWorker(state, id) EXCEPT !.progress.completed_tasks = done])

\* ------------------------------------------------------------ state
VARIABLES
  doc,           \* the committed state document, system-state.json
  dependencies,  \* doc.dependencies: written once by initializeSystem
  groupId,       \* this.groupId of each WorkerCore
  options,       \* this.options of each WorkerCore
  signals,       \* the worker processes the operator interrupts (SIGINT)
  worker,        \* each WorkerCore: position of start() and the object's fields
  hb,            \* each worker's sendHeartbeat call in flight
  sd,            \* each worker's shutdown() call
  coord,         \* the coordinator operation in flight and its return value
  granted,       \* history: the files each worker id was told it holds
  completions,   \* history: the workers whose status completed was committed
  events,        \* environment events so far
  now            \* the clock, Date.now()

vars ==
  <<doc, dependencies, groupId, options, signals, worker, hb, sd, coord,
    granted, completions, events, now>>

\* The exception in flight in a worker process, by its origin.
NoError == "none"
GroupNotFound == "Group configuration not found"
FileTimeout == "Timeout waiting for file"
HandlerError == "task handler error"

\* The constructor of WorkerCore, before start().
NewWorker ==
  [pc |-> "start", state |-> initialState, i |-> 0, retries |-> 0,
   exc |-> NoError, k |-> 0, isRunning |-> FALSE, currentTask |-> "null",
   acquiredLocks |-> {}, heartbeatTimer |-> FALSE]

NoResult == [op |-> "none"]

\* The worker objects of launch l constructed beside a coordinator whose state
\* document is `state`.
Booted(l, state) ==
  /\ dependencies = loadDependencies(l.configFile)
  /\ groupId = l.group
  /\ options = [w \in Workers |-> [maxRetries |-> l.maxRetries]]
  /\ signals = l.signals
  /\ doc = state
  /\ worker = [w \in Workers |->
                 IF l.group[w] = NotStarted
                 THEN [NewWorker EXCEPT !.pc = NotStarted] ELSE NewWorker]
  /\ hb = [w \in Workers |-> [pc |-> "idle", state |-> initialState]]
  /\ sd = [w \in Workers |-> [pc |-> "none", state |-> initialState]]
  /\ coord = [op |-> "idle", arg |-> "none", state |-> initialState,
              result |-> NoResult, queue |-> <<>>, inner |-> initialState]
  /\ granted = [w \in Workers |-> LocksOf(state, w)]
  /\ completions = {}
  /\ events = 0
  /\ now = 0

\* The state after the coordinator initialized the document and the worker
\* objects of launch l were constructed.
Boot(l) == Booted(l, initialState)

Init == \E l \in Launches : Boot(l)

OperatorInit == \E l \in OperatorLaunches : Boot(l)

Tasks(w) == generateTasks(groupId[w], dependencies[groupId[w]])

\* The task of the loop's current iteration, tasks[i].
Task(w) == Tasks(w)[worker[w].i + 1]

\* ------------------------------------------------- WorkerCore.start()
Start(w) ==
  /\ worker[w].pc = "start"
  /\ worker' = [worker EXCEPT ![w].isRunning = TRUE, ![w].pc = "register"]
  /\ UNCHANGED <<doc, dependencies, groupId, options, signals, hb, sd, coord, granted, completions, events, now>>

RegisterLoad(w) ==
  /\ worker[w].pc = "register"
  /\ IF groupId[w] \notin DOMAIN dependencies
     THEN worker' = [worker EXCEPT ![w].exc = GroupNotFound, ![w].pc = "error"]
     ELSE worker' = [worker EXCEPT
                       ![w].state = Registered(doc, w, groupId[w],
                                               dependencies[groupId[w]], now),
                       ![w].pc = "register_save"]
  /\ UNCHANGED <<doc, dependencies, groupId, options, signals, hb, sd, coord, granted, completions, events, now>>

\* saveSystemState, then startHeartbeat.
RegisterSave(w) ==
  /\ worker[w].pc = "register_save"
  /\ doc' = worker[w].state
  /\ worker' = [worker EXCEPT ![w].state = initialState,
                              ![w].heartbeatTimer = TRUE,
                              ![w].pc = "deps"]
  /\ UNCHANGED <<dependencies, groupId, options, signals, hb, sd, coord, granted, completions, events, now>>

\* One iteration of waitForDependencies: proceed, or sleep and poll again.
PollDependencies(w) ==
  /\ worker[w].pc = "deps"
  /\ IF WorkerCheckDependencies(doc, dependencies, groupId[w]).canProceed
     THEN worker' = [worker EXCEPT ![w].pc = "exec"]
     ELSE UNCHANGED worker
  /\ UNCHANGED <<doc, dependencies, groupId, options, signals, hb, sd, coord, granted, completions, events, now>>

\* updateStatus(status, extra) up to its save: the record is assigned when the
\* loaded state has it, and nothing is saved otherwise.
StatusLoad(w, status, extra, save, next) ==
  IF HasWorker(doc, w)
  THEN [worker[w] EXCEPT !.state = StatusAssigned(doc, w, status, now, extra),
                         !.pc = save]
  ELSE [worker[w] EXCEPT !.pc = next]

\* executeTasks: updateStatus('working').
ExecLoad(w) ==
  /\ worker[w].pc = "exec"
  /\ worker' = [worker EXCEPT
                  ![w] = StatusLoad(w, "working", NoData, "exec_save", "loop")]
  /\ UNCHANGED <<doc, dependencies, groupId, options, signals, hb, sd, coord, granted, completions, events, now>>

ExecSave(w) ==
  /\ worker[w].pc = "exec_save"
  /\ doc' = worker[w].state
  /\ worker' = [worker EXCEPT ![w].state = initialState, ![w].pc = "loop"]
  /\ UNCHANGED <<dependencies, groupId, options, signals, hb, sd, coord, granted, completions, events, now>>

\* The loop head of executeTasks passes; executeTask begins with updateStatus.
TaskBegin(w) ==
  /\ worker[w].pc = "loop"
  /\ worker[w].i < Len(Tasks(w))
  /\ worker[w].isRunning
  /\ worker' = [worker EXCEPT
                  ![w] = [StatusLoad(w, "working", TaskStatusData(Task(w)),
                                     "task_save", "acquire")
                            EXCEPT !.currentTask = Task(w).name]]
  /\ UNCHANGED <<doc, dependencies, groupId, options, signals, hb, sd, coord, granted, completions, events, now>>

TaskSave(w) ==
  /\ worker[w].pc = "task_save"
  /\ doc' = worker[w].state
  /\ worker' = [worker EXCEPT ![w].state = initialState, ![w].pc = "acquire"]
  /\ UNCHANGED <<dependencies, groupId, options, signals, hb, sd, coord, granted, completions, events, now>>

\* The worker after acquireFileLocks ran its loop from file k of copy `state`
\* to the next wait or to the end.
Acquiring(w, state, k) ==
  LET files == Task(w).files
      r == AcquireFrom(state, files, k, w)
  IN [worker[w] EXCEPT
        !.state = r.state,
        !.k = r.k,
        !.acquiredLocks = @ \cup {files[j] : j \in k..(r.k - 1)},
        !.pc = IF r.k > Len(files) THEN "acquire_save" ELSE "wait_file"]

AcquireLoad(w) ==
  /\ worker[w].pc = "acquire"
  /\ worker' = [worker EXCEPT ![w] = Acquiring(w, doc, 1)]
  /\ UNCHANGED <<doc, dependencies, groupId, options, signals, hb, sd, coord, granted, completions, events, now>>

\* One iteration of waitForFileAvailability: a fresh load; the file is free
\* (the lock goes into the copy loaded by acquireFileLocks and its loop goes
\* on), or the worker sleeps.
WaitPoll(w) ==
  /\ worker[w].pc = "wait_file"
  /\ LET f == Task(w).files[worker[w].k]
     IN IF doc.file_locks[f] \in {NoLock, w}
        THEN worker' = [worker EXCEPT ![w] =
               [Acquiring(w, [worker[w].state EXCEPT !.file_locks[f] = w],
                          worker[w].k + 1)
                  EXCEPT !.acquiredLocks = @ \cup {f}]]
        ELSE worker' = [worker EXCEPT ![w].pc = "wait_sleep"]
  /\ UNCHANGED <<doc, dependencies, groupId, options, signals, hb, sd, coord, granted, completions, events, now>>

\* sleep(5000) ends with time left.
WaitAgain(w) ==
  /\ worker[w].pc = "wait_sleep"
  /\ worker' = [worker EXCEPT ![w].pc = "wait_file"]
  /\ UNCHANGED <<doc, dependencies, groupId, options, signals, hb, sd, coord, granted, completions, events, now>>

\* The catch of executeTasks: retry the same task, or rethrow to start().
Caught(w, rec) ==
  IF rec.retries < options[w].maxRetries
  THEN [rec EXCEPT !.retries = @ + 1, !.exc = NoError, !.k = 0, !.pc = "loop"]
  ELSE [rec EXCEPT !.k = 0, !.pc = "error"]

\* A timeout after which the copy acquireFileLocks worked on is saved.
LeaseTimeoutSavingCopy(w) ==
  /\ worker[w].pc = "wait_sleep"
  /\ doc' = worker[w].state
  /\ worker' = [worker EXCEPT
                  ![w] = Caught(w, [worker[w] EXCEPT !.state = initialState,
                                                     !.exc = FileTimeout])]
  /\ UNCHANGED <<dependencies, groupId, options, signals, hb, sd, coord, granted, completions, events, now>>

\* sleep(5000) ends after maxWaitTime: waitForFileAvailability throws, out of
\* acquireFileLocks and executeTask (no lock was saved, nothing is released).
LeaseTimeout(w) ==
  /\ worker[w].pc = "wait_sleep"
  /\ worker' = [worker EXCEPT
                  ![w] = Caught(w, [worker[w] EXCEPT !.state = initialState,
                                                     !.exc = FileTimeout])]
  /\ UNCHANGED <<doc, dependencies, groupId, options, signals, hb, sd, coord, granted, completions, events, now>>

\* An acquire after which the heartbeat pauses while the handler runs.
AcquireSavePausingHeartbeat(w) ==
  /\ worker[w].pc = "acquire_save"
  /\ doc' = worker[w].state
  /\ granted' = [granted EXCEPT ![w] = @ \cup Range(Task(w).files)]
  /\ worker' = [worker EXCEPT ![w].state = initialState, ![w].k = 0,
                              ![w].heartbeatTimer = FALSE,
                              ![w].pc = "handler"]
  /\ UNCHANGED <<dependencies, groupId, options, signals, hb, sd, coord, completions, events, now>>

AcquireSave(w) ==
  /\ worker[w].pc = "acquire_save"
  /\ doc' = worker[w].state
  /\ granted' = [granted EXCEPT ![w] = @ \cup Range(Task(w).files)]
  /\ worker' = [worker EXCEPT ![w].state = initialState, ![w].k = 0,
                              ![w].pc = "handler"]
  /\ UNCHANGED <<dependencies, groupId, options, signals, hb, sd, coord, completions, events, now>>

\* The task handler ends normally.
HandlerReturn(w) ==
  /\ worker[w].pc = "handler"
  /\ worker' = [worker EXCEPT ![w].pc = "release"]
  /\ UNCHANGED <<doc, dependencies, groupId, options, signals, hb, sd, coord, granted, completions, events, now>>

\* The task handler (a task implementation, or the handler function of a
\* custom task) throws.
HandlerThrow(w) ==
  /\ worker[w].pc = "handler"
  /\ worker' = [worker EXCEPT ![w].exc = HandlerError, ![w].pc = "release"]
  /\ UNCHANGED <<doc, dependencies, groupId, options, signals, hb, sd, coord, granted, completions, events, now>>

\* finally: releaseFileLocks(task.files), up to its save.
ReleaseLoad(w) ==
  /\ worker[w].pc = "release"
  /\ LET files == Range(Task(w).files)
     IN worker' = [worker EXCEPT
                     ![w].state = Released(doc, files, w),
                     ![w].acquiredLocks = @ \ ReleasedFiles(doc, files, w),
                     ![w].pc = "release_save"]
  /\ UNCHANGED <<doc, dependencies, groupId, options, signals, hb, sd, coord, granted, completions, events, now>>

\* The save of releaseFileLocks ends executeTask: with the handler's exception
\* (caught by executeTasks) or normally (progress is updated next).
ReleaseSave(w) ==
  /\ worker[w].pc = "release_save"
  /\ doc' = worker[w].state
  /\ granted' = [granted EXCEPT ![w] = @ \ Range(Task(w).files)]
  /\ LET rec == [worker[w] EXCEPT !.state = initialState]
     IN worker' = [worker EXCEPT
                     ![w] = IF rec.exc # NoError THEN Caught(w, rec)
                            ELSE [rec EXCEPT !.pc = "progress"]]
  /\ UNCHANGED <<dependencies, groupId, options, signals, hb, sd, coord, completions, events, now>>

\* The loop's i++; the next task object has its own retries counter.
NextTask(rec) ==
  [rec EXCEPT !.state = initialState, !.i = @ + 1, !.retries = 0, !.pc = "loop"]

ProgressLoad(w) ==
  /\ worker[w].pc = "progress"
  /\ IF HasWorker(doc, w)
     THEN worker' = [worker EXCEPT
                       ![w].state = ProgressUpdated(doc, w, worker[w].i + 1),
                       ![w].pc = "progress_save"]
     ELSE worker' = [worker EXCEPT ![w] = NextTask(worker[w])]
  /\ UNCHANGED <<doc, dependencies, groupId, options, signals, hb, sd, coord, granted, completions, events, now>>

ProgressSave(w) ==
  /\ worker[w].pc = "progress_save"
  /\ doc' = worker[w].state
  /\ worker' = [worker EXCEPT ![w] = NextTask(worker[w])]
  /\ UNCHANGED <<dependencies, groupId, options, signals, hb, sd, coord, granted, completions, events, now>>

\* The loop of executeTasks ends (all tasks done, or break on !isRunning);
\* start() goes on with updateStatus('completed').
LoopExit(w) ==
  /\ worker[w].pc = "loop"
  /\ worker[w].i >= Len(Tasks(w)) \/ ~worker[w].isRunning
  /\ worker' = [worker EXCEPT
                  ![w] = StatusLoad(w, "completed", NoData,
                                    "completed_save", "cleanup")]
  /\ UNCHANGED <<doc, dependencies, groupId, options, signals, hb, sd, coord, granted, completions, events, now>>

CompletedSave(w) ==
  /\ worker[w].pc = "completed_save"
  /\ doc' = worker[w].state
  /\ completions' = completions \cup {w}
  /\ worker' = [worker EXCEPT ![w].state = initialState, ![w].pc = "cleanup"]
  /\ UNCHANGED <<dependencies, groupId, options, signals, hb, sd, coord, granted, events, now>>

\* catch of start(): updateStatus('error').
ErrorLoad(w) ==
  /\ worker[w].pc = "error"
  /\ worker' = [worker EXCEPT
                  ![w] = StatusLoad(w, "error", NoData, "error_save", "cleanup")]
  /\ UNCHANGED <<doc, dependencies, groupId, options, signals, hb, sd, coord, granted, completions, events, now>>

ErrorSave(w) ==
  /\ worker[w].pc = "error_save"
  /\ doc' = worker[w].state
  /\ worker' = [worker EXCEPT ![w].state = initialState, ![w].pc = "cleanup"]
  /\ UNCHANGED <<dependencies, groupId, options, signals, hb, sd, coord, granted, completions, events, now>>

\* cleanup() from its check of isRunning on: updateStatus('stopped') up to its
\* save when the worker is running, then isRunning = false.
CleanupStatus(rec, state, id, time) ==
  IF rec.isRunning /\ HasWorker(state, id)
  THEN [rec EXCEPT !.state = StatusAssigned(state, id, "stopped", time, NoData),
                   !.pc = "cleanup_status_save"]
  ELSE [rec EXCEPT !.state = initialState, !.isRunning = FALSE, !.pc = "done"]

\* finally of start(): cleanup() stops the heartbeat timer and releases the
\* locks in acquiredLocks, if any.
Cleanup(w) ==
  /\ worker[w].pc = "cleanup"
  /\ LET rec == [worker[w] EXCEPT !.heartbeatTimer = FALSE]
     IN IF rec.acquiredLocks # {}
        THEN worker' = [worker EXCEPT ![w] =
               [rec EXCEPT
                  !.state = Released(doc, rec.acquiredLocks, w),
                  !.acquiredLocks = @ \ ReleasedFiles(doc, rec.acquiredLocks, w),
                  !.pc = "cleanup_release_save"]]
        ELSE worker' = [worker EXCEPT ![w] = CleanupStatus(rec, doc, w, now)]
  /\ UNCHANGED <<doc, dependencies, groupId, options, signals, hb, sd, coord, granted, completions, events, now>>

CleanupReleaseSave(w) ==
  /\ worker[w].pc = "cleanup_release_save"
  /\ doc' = worker[w].state
  /\ granted' = [granted EXCEPT ![w] = {}]
  /\ worker' = [worker EXCEPT ![w] = [worker[w] EXCEPT !.state = initialState,
                                                       !.pc = "cleanup_status"]]
  /\ UNCHANGED <<dependencies, groupId, options, signals, hb, sd, coord, completions, events, now>>

CleanupStatusLoad(w) ==
  /\ worker[w].pc = "cleanup_status"
  /\ worker' = [worker EXCEPT ![w] = CleanupStatus(worker[w], doc, w, now)]
  /\ UNCHANGED <<doc, dependencies, groupId, options, signals, hb, sd, coord, granted, completions, events, now>>

CleanupStatusSave(w) ==
  /\ worker[w].pc = "cleanup_status_save"
  /\ doc' = worker[w].state
  /\ worker' = [worker EXCEPT ![w].state = initialState,
                              ![w].isRunning = FALSE, ![w].pc = "done"]
  /\ UNCHANGED <<dependencies, groupId, options, signals, hb, sd, coord, granted, completions, events, now>>

\* ------------------------------------------- the heartbeat timer
\* The interval fires: sendHeartbeat calls updateStatus, up to its save.
HeartbeatLoad(w) ==
  /\ worker[w].heartbeatTimer
  /\ hb[w].pc = "idle"
  /\ events < MaxEvents
  /\ events' = events + 1
  /\ LET status == IF worker[w].currentTask # "null" THEN "working" ELSE "idle"
     IN IF HasWorker(doc, w)
        THEN hb' = [hb EXCEPT ![w] =
               [pc |-> "save",
                state |-> StatusAssigned(doc, w, status, now, NoData)]]
        ELSE UNCHANGED hb
  /\ UNCHANGED <<doc, dependencies, groupId, options, signals, worker, sd, coord, granted, completions, now>>

HeartbeatSave(w) ==
  /\ hb[w].pc = "save"
  /\ doc' = hb[w].state
  /\ hb' = [hb EXCEPT ![w] = [pc |-> "idle", state |-> initialState]]
  /\ UNCHANGED <<dependencies, groupId, options, signals, worker, sd, coord, granted, completions, events, now>>

\* ------------------------------------------- WorkerCore.shutdown()
\* isRunning = false, then cleanup(): the timer is cleared, the locks in
\* acquiredLocks are released (up to the save); isRunning being false, no
\* status is written.
Shutdown(w) ==
  /\ w \in signals
  /\ sd[w].pc = "none"
  /\ worker[w].pc \notin {NotStarted, "start", "done"}
  /\ events < MaxEvents
  /\ events' = events + 1
  /\ LET locks == worker[w].acquiredLocks
     IN /\ worker' = [worker EXCEPT
                        ![w].isRunning = FALSE,
                        ![w].heartbeatTimer = FALSE,
                        ![w].acquiredLocks = @ \ ReleasedFiles(doc, locks, w)]
        /\ sd' = [sd EXCEPT ![w] =
                    IF locks # {}
                    THEN [pc |-> "release_save",
                          state |-> Released(doc, locks, w)]
                    ELSE [pc |-> "done", state |-> initialState]]
  /\ UNCHANGED <<doc, dependencies, groupId, options, signals, hb, coord, granted, completions, now>>

ShutdownReleaseSave(w) ==
  /\ sd[w].pc = "release_save"
  /\ doc' = sd[w].state
  /\ sd' = [sd EXCEPT ![w] = [pc |-> "done", state |-> initialState]]
  /\ granted' = [granted EXCEPT ![w] = {}]
  /\ UNCHANGED <<dependencies, groupId, options, signals, worker, hb, coord, completions, events, now>>

\* ------------------------------------------- CoordinatorCore operations
\* The group ids and files the operator commands and API calls are tried with.
ApiFiles == {"src/**/*", "eslint.config.js"}

Result(op, id, success, releasedFiles, lockedBy) ==
  [op |-> op, id |-> id, success |-> success,
   releasedFiles |-> releasedFiles, lockedBy |-> lockedBy]

\* A removal that deletes the record and keeps the worker's locks.
RemovedRecordOnly(state, id) ==
  [DeleteWorker(state, id) EXCEPT
     !.task_progress.active_groups = IF @ > 0 THEN @ - 1 ELSE @]

\* removeWorker between its load and its save.
Removed(state, id) ==
  [DeleteWorker(state, id) EXCEPT
     !.file_locks = [f \in Files |-> IF @[f] = id THEN NoLock ELSE @[f]],
     !.task_progress.active_groups = IF @ > 0 THEN @ - 1 ELSE @]

RemoveWorkerLoad(id) ==
  /\ coord.op = "idle"
  /\ events < MaxEvents
  /\ events' = events + 1
  /\ IF ~HasWorker(doc, id)
     THEN coord' = [coord EXCEPT
                      !.result = Result("removeWorker", id, FALSE, {}, NoLock)]
     ELSE coord' = [coord EXCEPT
                      !.op = "removeWorker",
                      !.state = Removed(doc, id),
                      !.result = Result("removeWorker", id, TRUE,
                                        LocksOf(doc, id), NoLock)]
  /\ UNCHANGED <<doc, dependencies, groupId, options, signals, worker, hb, sd, granted, completions, now>>

RemoveWorkerSave ==
  /\ coord.op = "removeWorker"
  /\ doc' = coord.state
  /\ coord' = [coord EXCEPT !.op = "idle", !.state = initialState]
  /\ granted' = [granted EXCEPT ![coord.result.id] = {}]
  /\ UNCHANGED <<dependencies, groupId, options, signals, worker, hb, sd, completions, events, now>>

\* A reassignment that leaves the worker's locks in place.
ReassignedKeepingLocks(state, id, newGroupId) ==
  PutWorker(state, id,
    [GetWorker(state, id) EXCEPT
       !.group = newGroupId,
       !.status = "reassigned",
       !.current_files = <<>>,
       !.progress = [total_tasks |-> 0, completed_tasks |-> 0,
                     current_task |-> "null"]])

\* reassignWorker between its load and its save.
Reassigned(state, id, newGroupId) ==
  LET cleared == [state EXCEPT !.file_locks =
                    [f \in Files |-> IF @[f] = id THEN NoLock ELSE @[f]]]
  IN PutWorker(cleared, id,
       [GetWorker(state, id) EXCEPT
          !.group = newGroupId,
          !.status = "reassigned",
          !.current_files = <<>>,
          !.progress = [total_tasks |-> 0, completed_tasks |-> 0,
                        current_task |-> "null"]])

ReassignWorkerLoad(id, newGroupId) ==
  /\ coord.op = "idle"
  /\ events < MaxEvents
  /\ events' = events + 1
  /\ IF ~HasWorker(doc, id) \/ newGroupId \notin DOMAIN dependencies
     THEN coord' = [coord EXCEPT
                      !.result = Result("reassignWorker", id, FALSE, {}, NoLock)]
     ELSE coord' = [coord EXCEPT
                      !.op = "reassignWorker",
                      !.arg = newGroupId,
                      !.state = Reassigned(doc, id, newGroupId),
                      !.result = Result("reassignWorker", id, TRUE, {},
                                        NoLock)]
  /\ UNCHANGED <<doc, dependencies, groupId, options, signals, worker, hb, sd, granted, completions, now>>

ReassignWorkerSave ==
  /\ coord.op = "reassignWorker"
  /\ doc' = coord.state
  /\ coord' = [coord EXCEPT !.op = "idle", !.state = initialState]
  /\ granted' = [granted EXCEPT ![coord.result.id] = {}]
  /\ UNCHANGED <<dependencies, groupId, options, signals, worker, hb, sd, completions, events, now>>

\* What acquireFileLock(workerId, filePath) returns on the state it loaded.
AcquireFileLockResult(state, workerId, filePath) ==
  IF state.file_locks[filePath] \notin {NoLock, workerId}
  THEN Result("acquireFileLock", workerId, FALSE, {filePath},
              state.file_locks[filePath])
  ELSE Result("acquireFileLock", workerId, TRUE, {filePath}, NoLock)

AcquireFileLockLoad(workerId, filePath) ==
  /\ coord.op = "idle"
  /\ events < MaxEvents
  /\ events' = events + 1
  /\ LET r == AcquireFileLockResult(doc, workerId, filePath)
     IN IF ~r.success
        THEN coord' = [coord EXCEPT !.result = r]
        ELSE coord' = [coord EXCEPT
                         !.op = "acquireFileLock",
                         !.state = [doc EXCEPT !.file_locks[filePath] = workerId],
                         !.result = r]
  /\ UNCHANGED <<doc, dependencies, groupId, options, signals, worker, hb, sd, granted, completions, now>>

AcquireFileLockSave ==
  /\ coord.op = "acquireFileLock"
  /\ doc' = coord.state
  /\ coord' = [coord EXCEPT !.op = "idle", !.state = initialState]
  /\ granted' = [granted EXCEPT
                   ![coord.result.id] = @ \cup coord.result.releasedFiles]
  /\ UNCHANGED <<dependencies, groupId, options, signals, worker, hb, sd, completions, events, now>>

\* The record registerWorker builds.
CoordWorkerInfo(workerId, group, time) ==
  [id |-> workerId, group |-> group, status |-> "initializing",
   last_heartbeat |-> time, current_files |-> <<>>,
   progress |-> [total_tasks |-> 0, completed_tasks |-> 0,
                 current_task |-> "null"]]

\* A registration that also frees the files locked under the new id.
RegisteredFreeingFiles(state, workerId, group, time) ==
  [PutWorker(state, workerId, CoordWorkerInfo(workerId, group, time))
     EXCEPT !.task_progress.active_groups = @ + 1,
            !.file_locks = [f \in Files |->
                              IF @[f] = workerId THEN NoLock ELSE @[f]]]

\* registerWorker between its check and its save.
CoordRegistered(state, workerId, group, time) ==
  [PutWorker(state, workerId, CoordWorkerInfo(workerId, group, time))
     EXCEPT !.task_progress.active_groups = @ + 1]

\* registerWorker(workerId, groupId) up to its save; it throws when the loaded
\* state has a record of workerId.
RegisterWorkerLoad(workerId, group) ==
  /\ coord.op = "idle"
  /\ events < MaxEvents
  /\ events' = events + 1
  /\ IF HasWorker(doc, workerId)
     THEN coord' = [coord EXCEPT
                      !.result = Result("registerWorker", workerId, FALSE, {},
                                        NoLock)]
     ELSE coord' = [coord EXCEPT
                      !.op = "registerWorker",
                      !.arg = group,
                      !.state = CoordRegistered(doc, workerId, group, now),
                      !.result = [op |-> "registerWorker", id |-> workerId,
                                  success |-> TRUE, releasedFiles |-> {},
                                  lockedBy |-> NoLock,
                                  worker |-> CoordWorkerInfo(workerId, group,
                                                             now)]]
  /\ UNCHANGED <<doc, dependencies, groupId, options, signals, worker, hb, sd, granted, completions, now>>

RegisterWorkerSave ==
  /\ coord.op = "registerWorker"
  /\ doc' = coord.state
  /\ coord' = [coord EXCEPT !.op = "idle", !.state = initialState]
  /\ UNCHANGED <<dependencies, groupId, options, signals, worker, hb, sd, granted, completions, events, now>>

\* updateWorkerStatus(workerId, {status}) up to its save; it throws when the
\* loaded state has no record of workerId.
UpdateWorkerStatusLoad(workerId, status) ==
  /\ coord.op = "idle"
  /\ events < MaxEvents
  /\ events' = events + 1
  /\ IF ~HasWorker(doc, workerId)
     THEN coord' = [coord EXCEPT
                      !.result = Result("updateWorkerStatus", workerId, FALSE,
                                        {}, NoLock)]
     ELSE coord' = [coord EXCEPT
                      !.op = "updateWorkerStatus",
                      !.state = StatusAssigned(doc, workerId, status, now,
                                               NoData),
                      !.result = Result("updateWorkerStatus", workerId, TRUE,
                                        {}, NoLock)]
  /\ UNCHANGED <<doc, dependencies, groupId, options, signals, worker, hb, sd, granted, completions, now>>

UpdateWorkerStatusSave ==
  /\ coord.op = "updateWorkerStatus"
  /\ doc' = coord.state
  /\ coord' = [coord EXCEPT !.op = "idle", !.state = initialState]
  /\ UNCHANGED <<dependencies, groupId, options, signals, worker, hb, sd, granted, completions, events, now>>

\* releaseFileLock between its load and its save: the entry is deleted when it
\* names workerId.
LockReleased(state, workerId, filePath) ==
  IF state.file_locks[filePath] = workerId
  THEN [state EXCEPT !.file_locks[filePath] = NoLock]
  ELSE state

\* releaseFileLock(workerId, filePath): it saves when the loaded state shows
\* the file held by workerId and does nothing otherwise; it returns nothing and
\* throws nothing.
ReleaseFileLockLoad(workerId, filePath) ==
  /\ coord.op = "idle"
  /\ events < MaxEvents
  /\ events' = events + 1
  /\ IF doc.file_locks[filePath] # workerId
     THEN coord' = [coord EXCEPT
                      !.result = Result("releaseFileLock", workerId, TRUE, {},
                                        doc.file_locks[filePath])]
     ELSE coord' = [coord EXCEPT
                      !.op = "releaseFileLock",
                      !.state = LockReleased(doc, workerId, filePath),
                      !.result = Result("releaseFileLock", workerId, TRUE,
                                        {filePath}, NoLock)]
  /\ UNCHANGED <<doc, dependencies, groupId, options, signals, worker, hb, sd, granted, completions, now>>

ReleaseFileLockSave ==
  /\ coord.op = "releaseFileLock"
  /\ doc' = coord.state
  /\ coord' = [coord EXCEPT !.op = "idle", !.state = initialState]
  /\ granted' = [granted EXCEPT
                   ![coord.result.id] = @ \ coord.result.releasedFiles]
  /\ UNCHANGED <<dependencies, groupId, options, signals, worker, hb, sd, completions, events, now>>

\* Object.keys(state.active_workers)
WorkerIds(state) ==
  [i \in 1..Len(state.active_workers) |-> state.active_workers[i].id]

\* A stop that forgets the workers and keeps their locks.
AllStoppedKeepingLocks(state) == [state EXCEPT !.active_workers = <<>>]

\* The copy stopAllWorkers saves: the state it loaded with file_locks and
\* active_workers replaced by empty objects.
AllStopped(state) ==
  [state EXCEPT !.file_locks = [f \in Files |-> NoLock],
                !.active_workers = <<>>]

\* stopAllWorkers (stopAll, stop): the load.
StopAllWorkersLoad ==
  /\ coord.op = "idle"
  /\ events < MaxEvents
  /\ events' = events + 1
  /\ coord' = [coord EXCEPT
                  !.op = "stopAllWorkers",
                  !.state = AllStopped(doc),
                  !.queue = WorkerIds(doc),
                  !.result = Result("stopAllWorkers", "none", TRUE, {}, NoLock)]
  /\ UNCHANGED <<doc, dependencies, groupId, options, signals, worker, hb, sd, granted, completions, now>>

\* updateWorkerStatus(workerId, {status: 'stopping'}) for the next worker id,
\* up to its save; it throws, out of stopAllWorkers, when the record is gone.
StopStatusLoad ==
  /\ coord.op = "stopAllWorkers"
  /\ coord.queue # <<>>
  /\ LET workerId == Head(coord.queue)
     IN IF ~HasWorker(doc, workerId)
        THEN coord' = [coord EXCEPT
                         !.op = "idle", !.state = initialState, !.queue = <<>>,
                         !.result = Result("stopAllWorkers", workerId, FALSE,
                                           {}, NoLock)]
        ELSE coord' = [coord EXCEPT
                         !.op = "stopAllWorkers_status",
                         !.inner = StatusAssigned(doc, workerId, "stopping",
                                                  now, NoData)]
  /\ UNCHANGED <<doc, dependencies, groupId, options, signals, worker, hb, sd, granted, completions, events, now>>

\* The save of updateWorkerStatus, which then emits worker:updated.
StopStatusSave ==
  /\ coord.op = "stopAllWorkers_status"
  /\ doc' = coord.inner
  /\ coord' = [coord EXCEPT
                  !.op = "stopAllWorkers", !.queue = Tail(@),
                  !.inner = initialState,
                  !.result = Result("stopAllWorkers", Head(coord.queue), TRUE,
                                    {}, NoLock)]
  /\ UNCHANGED <<dependencies, groupId, options, signals, worker, hb, sd, granted, completions, events, now>>

\* The save that ends stopAllWorkers.
StopAllWorkersSave ==
  /\ coord.op = "stopAllWorkers"
  /\ coord.queue = <<>>
  /\ doc' = coord.state
  /\ coord' = [coord EXCEPT !.op = "idle", !.state = initialState]
  /\ granted' = [w \in Workers |-> {}]
  /\ UNCHANGED <<dependencies, groupId, options, signals, worker, hb, sd, completions, events, now>>

\* A coordinator process is started (claude-coord start): start() calls
\* initializeSystem, which builds the initial state and saves it.
StartCoordinator ==
  /\ coord.op = "idle"
  /\ events < MaxEvents
  /\ events' = events + 1
  /\ doc' = initialState
  /\ coord' = [coord EXCEPT
                  !.result = Result("start", "none", TRUE, {}, NoLock)]
  /\ granted' = [w \in Workers |-> {}]
  /\ UNCHANGED <<dependencies, groupId, options, signals, worker, hb, sd, completions, now>>

\* A status report that takes the number of workers from the counter
\* task_progress.active_groups.
SystemStatusFromCounter(state) ==
  [healthy |-> TRUE,
   activeWorkers |-> state.task_progress.active_groups,
   completedTasks |-> state.task_progress.completed_groups,
   totalTasks |-> state.task_progress.total_groups,
   fileLocks |-> Cardinality({f \in Files : state.file_locks[f] # NoLock}),
   workers |-> state.active_workers]

\* What getSystemStatus returns on the state it loaded.
SystemStatus(state) ==
  [healthy |-> TRUE,
   activeWorkers |-> Len(WorkerIds(state)),
   completedTasks |-> state.task_progress.completed_groups,
   totalTasks |-> state.task_progress.total_groups,
   fileLocks |-> Cardinality({f \in Files : state.file_locks[f] # NoLock}),
   workers |-> state.active_workers]

\* getSystemStatus(): one load, nothing is written.
GetSystemStatus ==
  /\ coord.op = "idle"
  /\ events < MaxEvents
  /\ events' = events + 1
  /\ coord' = [coord EXCEPT
                  !.result = [op |-> "getSystemStatus", id |-> "none",
                              success |-> TRUE, releasedFiles |-> {},
                              lockedBy |-> NoLock,
                              status |-> SystemStatus(doc)]]
  /\ UNCHANGED <<doc, dependencies, groupId, options, signals, worker, hb, sd, granted, completions, now>>

\* ------------------------------------------- the heartbeat monitor
\* More than staleWorkerTimeout passes.
Tick ==
  /\ now < MaxTicks * (StaleWorkerTimeout + 1)
  /\ now' = now + StaleWorkerTimeout + 1
  /\ UNCHANGED <<doc, dependencies, groupId, options, signals, worker, hb, sd, coord, granted, completions, events>>

\* The staleWorkers array of checkWorkerHealth, in the order of
\* Object.entries(state.active_workers).
StaleWorkers(state, time) ==
  LET overdue == SelectSeq(state.active_workers,
                   LAMBDA r : time - r.last_heartbeat > StaleWorkerTimeout)
  IN [i \in 1..Len(overdue) |-> overdue[i].id]

\* The monitor's interval fires: checkWorkerHealth loads the state and
\* collects the overdue workers.
CheckWorkerHealthLoad ==
  /\ coord.op = "idle"
  /\ events < MaxEvents
  /\ events' = events + 1
  /\ LET stale == StaleWorkers(doc, now)
     IN IF stale = <<>>
        THEN coord' = [coord EXCEPT
                         !.result = Result("checkWorkerHealth", "none", TRUE,
                                           {}, NoLock)]
        ELSE coord' = [coord EXCEPT
                         !.op = "checkWorkerHealth",
                         !.queue = stale,
                         !.result = Result("checkWorkerHealth", Head(stale),
                                           TRUE, {}, NoLock)]
  /\ UNCHANGED <<doc, dependencies, groupId, options, signals, worker, hb, sd, granted, completions, now>>

\* A sweep that frees the files of the worker it marks.
HealthStatusLoadReleasing ==
  /\ coord.op = "checkWorkerHealth"
  /\ LET workerId == Head(coord.queue)
     IN IF ~HasWorker(doc, workerId)
        THEN coord' = [coord EXCEPT
                         !.op = "idle", !.queue = <<>>,
                         !.result = Result("checkWorkerHealth", workerId,
                                           FALSE, {}, NoLock)]
        ELSE coord' = [coord EXCEPT
                         !.op = "checkWorkerHealth_save",
                         !.inner = StatusAssigned(
                                     Released(doc, Files, workerId),
                                     workerId, "stale", now, NoData)]
  /\ UNCHANGED <<doc, dependencies, groupId, options, signals, worker, hb, sd, granted, completions, events, now>>

\* updateWorkerStatus(workerId, {status: 'stale'}) for the first overdue
\* worker, up to its save; it throws when the record is gone.
HealthStatusLoad ==
  /\ coord.op = "checkWorkerHealth"
  /\ LET workerId == Head(coord.queue)
     IN IF ~HasWorker(doc, workerId)
        THEN coord' = [coord EXCEPT
                         !.op = "idle", !.queue = <<>>,
                         !.result = Result("checkWorkerHealth", workerId,
                                           FALSE, {}, NoLock)]
        ELSE coord' = [coord EXCEPT
                         !.op = "checkWorkerHealth_save",
                         !.inner = StatusAssigned(doc, workerId, "stale", now,
                                                  NoData)]
  /\ UNCHANGED <<doc, dependencies, groupId, options, signals, worker, hb, sd, granted, completions, events, now>>

\* The save of updateWorkerStatus; the log call after it reads `worker`, which
\* is not in scope there: a ReferenceError ends the sweep (caught by the timer
\* callback) with the rest of staleWorkers unmarked.
HealthStatusSave ==
  /\ coord.op = "checkWorkerHealth_save"
  /\ doc' = coord.inner
  /\ coord' = [coord EXCEPT
                  !.op = "idle", !.queue = <<>>, !.inner = initialState,
                  !.result = Result("checkWorkerHealth", Head(coord.queue),
                                    FALSE, {}, NoLock)]
  /\ UNCHANGED <<dependencies, groupId, options, signals, worker, hb, sd, granted, completions, events, now>>

WorkerStep(w) ==
  \/ Start(w) \/ RegisterLoad(w) \/ RegisterSave(w) \/ PollDependencies(w)
  \/ ExecLoad(w) \/ ExecSave(w) \/ TaskBegin(w) \/ TaskSave(w)
  \/ AcquireLoad(w) \/ WaitPoll(w) \/ WaitAgain(w) \/ LeaseTimeout(w)
  \/ AcquireSave(w) \/ HandlerReturn(w) \/ HandlerThrow(w)
  \/ ReleaseLoad(w) \/ ReleaseSave(w) \/ ProgressLoad(w) \/ ProgressSave(w)
  \/ LoopExit(w) \/ CompletedSave(w) \/ ErrorLoad(w) \/ ErrorSave(w)
  \/ Cleanup(w) \/ CleanupReleaseSave(w) \/ CleanupStatusLoad(w)
  \/ CleanupStatusSave(w)

TimerStep(w) == HeartbeatLoad(w) \/ HeartbeatSave(w)

CoordStep ==
  \/ \E id \in Workers : RemoveWorkerLoad(id)
  \/ RemoveWorkerSave
  \/ \E id \in Workers, g \in DOMAIN dependencies : ReassignWorkerLoad(id, g)
  \/ ReassignWorkerSave
  \/ \E id \in Workers, f \in ApiFiles : AcquireFileLockLoad(id, f)
  \/ AcquireFileLockSave

SignalStep(w) == Shutdown(w) \/ ShutdownReleaseSave(w)

\* Two worker processes and the signals sent to them.
Next ==
  \/ \E w \in Workers : WorkerStep(w)
  \/ \E w \in Workers : SignalStep(w)

Spec == Init /\ [][Next]_vars

\* The group registerWorker is called with for each id, and the statuses
\* updateWorkerStatus is called with.
ApiGroup == [w1 |-> "GRUP1_TYPESCRIPT", w2 |-> "GRUP2_ESLINT"]

ApiStatuses == {"working"}

\* One worker process with its timers and signals, and the coordinator's
\* operations.
OperatorNext ==
  \/ \E w \in Workers : WorkerStep(w)
  \/ \E w \in Workers : SignalStep(w)
  \/ \E w \in Workers : TimerStep(w)
  \/ CoordStep

OperatorSpec == OperatorInit /\ [][OperatorNext]_vars

\* The coordinator alone: its API, its commands and its heartbeat monitor, on
\* a state document that earlier registerWorker and acquireFileLock calls left.
RECURSIVE RegisteredAll(_, _)
RegisteredAll(state, ids) ==
  IF ids = <<>> THEN state
  ELSE RegisteredAll(CoordRegistered(state, Head(ids), ApiGroup[Head(ids)], 0),
                     Tail(ids))

ApiStates ==
  {[RegisteredAll(initialState, ids) EXCEPT
      !.file_locks = [f \in Files |-> IF f \in ApiFiles THEN locks[f]
                                                        ELSE NoLock]] :
     ids \in {<<>>, <<"w1">>, <<"w2">>, <<"w1", "w2">>, <<"w2", "w1">>},
     locks \in [ApiFiles -> Workers \cup {NoLock}]}

CoordinatorLaunches == {Launch("none", NotStarted, NotStarted, 0, {})}

CoordinatorInit ==
  \E l \in CoordinatorLaunches, state \in ApiStates : Booted(l, state)

CoordinatorNext ==
  \/ CoordStep
  \/ \E id \in Workers : RegisterWorkerLoad(id, ApiGroup[id])
  \/ RegisterWorkerSave
  \/ \E id \in Workers, st \in ApiStatuses : UpdateWorkerStatusLoad(id, st)
  \/ UpdateWorkerStatusSave
  \/ \E id \in Workers, f \in ApiFiles : ReleaseFileLockLoad(id, f)
  \/ ReleaseFileLockSave
  \/ StopAllWorkersLoad \/ StopStatusLoad \/ StopStatusSave
  \/ StopAllWorkersSave
  \/ StartCoordinator
  \/ GetSystemStatus
  \/ CheckWorkerHealthLoad \/ HealthStatusLoad \/ HealthStatusSave
  \/ Tick

CoordinatorSpec == CoordinatorInit /\ [][CoordinatorNext]_vars

\* One worker process started on a state document that earlier registerWorker
\* and acquireFileLock calls left.
JoinInit ==
  \E l \in OperatorLaunches, state \in ApiStates : Booted(l, state)

JoinSpec == JoinInit /\ [][Next]_vars

\* The same, with releaseFileLock calls made through the coordinator.
LeaseNext ==
  \/ \E w \in Workers : WorkerStep(w)
  \/ \E id \in Workers, f \in ApiFiles : ReleaseFileLockLoad(id, f)
  \/ ReleaseFileLockSave

LeaseSpec == JoinInit /\ [][LeaseNext]_vars

\* ------------------------------------------------------------ properties
\* The files of the task worker w is executing.
TaskFiles(w) == Range(Task(w).files)

\* C1: no two different workers are at the same time inside the handler phase
\* of executeTask (after acquireFileLocks returned, before the finally block's
\* releaseFileLocks) for tasks whose file lists share a file name.
C1_HandlerMutualExclusion ==
  \A v, w \in Workers :
    (v # w /\ worker[v].pc = "handler" /\ worker[w].pc = "handler")
      => TaskFiles(v) \cap TaskFiles(w) = {}

\* C2: of the acquire calls on one file by distinct worker ids
\* (CoordinatorCore.acquireFileLock, WorkerCore.acquireFileLocks) with no
\* release of the file in between, at most one returns success: no file is
\* at one time granted to two workers.
C2_AtMostOneGrant ==
  \A v, w \in Workers : v # w => granted[v] \cap granted[w] = {}

\* The step is taken by worker process v: its start(), or its signal handler.
StepOf(v) == worker'[v] # worker[v] \/ sd'[v] # sd[v]

\* What worker id w has committed in the document: its record and its locks.
Committed(state, w) ==
  [record |-> IF HasWorker(state, w) THEN <<GetWorker(state, w)>> ELSE <<>>,
   locks |-> LocksOf(state, w)]

\* C3: no lost updates: an operation of one participant that completes leaves
\* in the committed document the effects the other participants' completed
\* operations put there, whatever the interleaving of loads and saves; so a
\* step of worker process v changes nothing another worker id has committed.
C3_NoLostUpdates ==
  [][\A v, w \in Workers :
       (v # w /\ StepOf(v)) => Committed(doc', w) = Committed(doc, w)]_vars

\* Worker process w is past waitForDependencies: it entered executeTasks.
EnteredExecuteTasks(w) ==
  worker[w].pc \notin {NotStarted, "start", "register", "register_save", "deps"}

\* Worker process v ran every task of its group to successful completion: the
\* loop of executeTasks counted all of them.
RanEveryTask(v) ==
  /\ worker[v].pc # NotStarted
  /\ worker[v].i >= Len(Tasks(v))

BlockedBy(g) ==
  IF g \in DOMAIN dependencies /\ "blocked_by" \in DOMAIN dependencies[g]
  THEN Range(dependencies[g].blocked_by) ELSE {}

\* C4: for a group B whose blocked_by lists group A, no worker registered for
\* B enters executeTasks (sets its status to working) before some worker has
\* run every task of group A to successful completion, whatever the sequence
\* of operations, shutdown of the group-A worker included.
C4_DependentGroupOrdering ==
  \A w \in Workers :
    EnteredExecuteTasks(w) =>
      \A a \in BlockedBy(groupId[w]) :
        \E v \in Workers : groupId[v] = a /\ RanEveryTask(v)

\* C5: with group A (GRUP1_TYPESCRIPT) having no blockers, group B
\* (GRUP2_ESLINT) having blocked_by = [A] and w1 the worker of A,
\* checkDependencies(B) of the worker and of the coordinator return
\* canProceed false with blockers exactly [A] in every state where w1 does not
\* have status completed (before w1 is registered too), and canProceed true
\* with no blockers when w1's status is completed.
C5_CheckDependenciesScenario ==
  (dependencies = DefaultDependencies /\ groupId["w1"] = "GRUP1_TYPESCRIPT") =>
    LET completed == /\ HasWorker(doc, "w1")
                     /\ GetWorker(doc, "w1").status = "completed"
        expected == IF completed
                    THEN [canProceed |-> TRUE, blockers |-> <<>>]
                    ELSE [canProceed |-> FALSE,
                          blockers |-> <<"GRUP1_TYPESCRIPT">>]
    IN /\ WorkerCheckDependencies(doc, dependencies, "GRUP2_ESLINT") = expected
       /\ CoordCheckDependencies(doc, dependencies, "GRUP2_ESLINT") = expected

\* w1 of group A has status completed while w2 of group B polls.
C5_Witness ==
  /\ dependencies = DefaultDependencies
  /\ groupId["w1"] = "GRUP1_TYPESCRIPT"
  /\ groupId["w2"] = "GRUP2_ESLINT"
  /\ worker["w2"].pc = "deps"
  /\ HasWorker(doc, "w1")
  /\ GetWorker(doc, "w1").status = "completed"
  /\ WorkerCheckDependencies(doc, dependencies, "GRUP2_ESLINT").canProceed

\* Worker process v finished all its tasks, committed status completed, and
\* has since finished start() and exited; its record is in the document.
CompletedAndExited(v) ==
  /\ RanEveryTask(v)
  /\ v \in completions
  /\ HasWorker(doc, v)
  /\ worker[v].pc = "done"
  /\ sd[v].pc # "release_save"

\* C6: once a worker of every group that B depends on has finished all its
\* tasks and reached completed, a worker of B polling in waitForDependencies
\* gets canProceed = true, also when the workers that completed have since
\* finished start() and exited: in a state where those workers have exited,
\* so that nothing writes the document any more, the waiting worker's poll
\* succeeds.
C6_DependencyGatingOpens ==
  \A w \in Workers :
    ( /\ worker[w].pc = "deps"
      /\ \A a \in BlockedBy(groupId[w]) :
            \E v \in Workers : groupId[v] = a /\ CompletedAndExited(v) )
      => WorkerCheckDependencies(doc, dependencies, groupId[w]).canProceed

\* The prerequisites a group of the project configuration names under the key
\* "dependencies".
ConfiguredDependencies(g) ==
  IF g \in DOMAIN dependencies /\ "dependencies" \in DOMAIN dependencies[g]
  THEN Range(dependencies[g].dependencies) ELSE {}

\* C7: with the project configuration of the README and createProjectConfig,
\* where ESLINT names TYPESCRIPT under the key "dependencies", a worker
\* started for ESLINT does not begin executing tasks until a TYPESCRIPT worker
\* has completed.
C7_ConfiguredDependenciesAwaited ==
  \A w \in Workers :
    EnteredExecuteTasks(w) =>
      \A a \in ConfiguredDependencies(groupId[w]) :
        \E v \in completions : groupId[v] = a

\* The step in which acquireFileLocks of worker w fails: the wait for a file
\* held by another worker timed out.
AcquireTimedOut(w) ==
  /\ worker[w].pc = "wait_sleep"
  /\ worker'[w].pc \in {"loop", "error"}

\* C8 as stated: if acquireFileLocks(files) fails because a requested file
\* stays held by another worker until waitForFileAvailability times out, then
\* in the committed state after the failure none of the requested files is
\* held by the caller.
C8_FailedAcquireHoldsNothing ==
  [][\A w \in Workers :
       AcquireTimedOut(w) =>
         \A f \in TaskFiles(w) : doc'.file_locks[f] # w]_vars

\* C8, amended: a call of acquireFileLocks(files) that fails by the timeout
\* commits nothing: in the committed state after the failure the caller holds
\* no requested file that it did not hold in the committed state before it.
C8_FailedAcquireCommitsNothing ==
  [][\A w \in Workers :
       AcquireTimedOut(w) =>
         \A f \in TaskFiles(w) :
           doc'.file_locks[f] = w => doc.file_locks[f] = w]_vars

\* acquireFileLocks of w failed by the timeout after it had taken a file in
\* its copy; start() is in its catch.
C8_Witness ==
  \E w \in Workers :
    /\ worker[w].pc = "error"
    /\ worker[w].exc = FileTimeout
    /\ worker[w].acquiredLocks \cap TaskFiles(w) # {}
    /\ \E f \in TaskFiles(w) : doc.file_locks[f] \notin {NoLock, w}

\* The step in which executeTask of worker w ends after its locks were
\* acquired: the save of the finally block's releaseFileLocks.
ExecuteTaskEnds(w) ==
  /\ worker[w].pc = "release_save"
  /\ worker'[w].pc # "release_save"

\* C9: whenever executeTask ends after its locks were acquired, the handler
\* having returned normally or thrown, the committed state afterwards has no
\* file_locks entry naming this worker for any file of that task.
C9_GuaranteedRelease ==
  [][\A w \in Workers :
       ExecuteTaskEnds(w) =>
         \A f \in TaskFiles(w) : doc'.file_locks[f] # w]_vars

\* executeTask of w ended with the handler's exception, which start() caught;
\* the task's files are not locked by w.
C9_Witness ==
  \E w \in Workers :
    /\ worker[w].pc = "error"
    /\ worker[w].exc = HandlerError
    /\ \A f \in TaskFiles(w) : doc.file_locks[f] # w

\* C10: removeWorker(id) on a registered worker returns in releasedFiles
\* exactly the files file_locks mapped to id in the state it loaded, its save
\* deletes those entries and the worker record, and acquireFileLock by any
\* other worker on any of those files on the saved state succeeds.
C10_RemoveWorkerReleases ==
  [][/\ (coord.op = "idle" /\ coord'.op = "removeWorker") =>
          /\ HasWorker(doc, coord'.result.id)
          /\ coord'.result.success
          /\ coord'.result.releasedFiles = LocksOf(doc, coord'.result.id)
     /\ (coord.op = "removeWorker" /\ coord'.op = "idle") =>
          /\ ~HasWorker(doc', coord.result.id)
          /\ LocksOf(doc', coord.result.id) = {}
          /\ \A f \in coord.result.releasedFiles :
                \A other \in Workers \ {coord.result.id} :
                  AcquireFileLockResult(doc', other, f).success]_vars

\* removeWorker returned the files the removed worker held; the record and
\* the locks are gone.
C10_Witness ==
  /\ coord.op = "idle"
  /\ coord.result.op = "removeWorker"
  /\ coord.result.success
  /\ coord.result.releasedFiles # {}
  /\ ~HasWorker(doc, coord.result.id)
  /\ LocksOf(doc, coord.result.id) = {}

\* C11: in every committed state after removeWorker(w) removed the record of
\* a running worker process w, every file_locks entry naming w has a record of
\* w in active_workers beside it, whatever acquire, release or heartbeat of w
\* was in flight during the removal.
C11_NoLeaseWithoutRecord ==
  \A w \in Workers :
    (/\ worker[w].pc # NotStarted
     /\ coord.op = "idle"
     /\ coord.result.op = "removeWorker"
     /\ coord.result.success
     /\ coord.result.id = w)
      => (LocksOf(doc, w) # {} => HasWorker(doc, w))

C13_DuplicateRegistrationFails ==
  [][/\ \A id \in Workers :
          (/\ coord.op = "idle"
           /\ coord'.result.op = "registerWorker"
           /\ coord'.result.id = id
           /\ events' # events
           /\ HasWorker(doc, id))
            => (~coord'.result.success /\ coord'.op = "idle" /\ doc' = doc)
     /\ \A w \in Workers :
          (/\ worker[w].pc = "register"
           /\ worker'[w].pc # "register"
           /\ HasWorker(doc, w))
            => (worker'[w].exc # NoError /\ worker'[w].pc = "error")]_vars

\* C14: a status update for a worker id that has no record fails with an
\* error reported to the caller and writes nothing, on both paths:
\* CoordinatorCore.updateWorkerStatus returns failure and starts no save, and
\* a WorkerCore.updateStatus call of executeTasks or executeTask leaves start()
\* with an exception in flight.
C14_StatusUpdateOfMissingWorkerFails ==
  [][/\ \A id \in Workers :
          (/\ coord.op = "idle"
           /\ coord'.result.op = "updateWorkerStatus"
           /\ coord'.result.id = id
           /\ events' # events
           /\ ~HasWorker(doc, id))
            => (~coord'.result.success /\ coord'.op = "idle" /\ doc' = doc)
     /\ \A w \in Workers :
          (/\ worker[w].pc \in {"exec", "loop"}
           /\ worker'[w].pc # worker[w].pc
           /\ ~HasWorker(doc, w))
            => (worker'[w].exc # NoError /\ doc' = doc)]_vars

\* C15: the save of a successful reassignWorker(id, newGroup) writes a state
\* in which no file_locks entry names id and id's record has group newGroup,
\* status reassigned, no current_files and progress reset to 0 / 0 / null,
\* while the records (and their order) and the locks of all other workers are
\* those of the state document the operation worked on.
C15_ReassignWorkerEffect ==
  [][(coord.op = "reassignWorker" /\ coord'.op = "idle")
       => LET id == coord.result.id
          IN /\ LocksOf(doc', id) = {}
             /\ HasWorker(doc', id)
             /\ GetWorker(doc', id).group = coord.arg
             /\ GetWorker(doc', id).status = "reassigned"
             /\ GetWorker(doc', id).current_files = <<>>
             /\ GetWorker(doc', id).progress =
                  [total_tasks |-> 0, completed_tasks |-> 0,
                   current_task |-> "null"]
             /\ WorkerIds(doc') = WorkerIds(doc)
             /\ \A v \in Workers \ {id} :
                  /\ LocksOf(doc', v) = LocksOf(doc, v)
                  /\ HasWorker(doc, v) => GetWorker(doc', v) = GetWorker(doc, v)
             /\ doc'.task_progress = doc.task_progress]_vars

\* reassignWorker has moved a worker to another group beside a registered
\* worker that holds files.
C15_Witness ==
  /\ coord.op = "idle"
  /\ coord.result.op = "reassignWorker"
  /\ coord.result.success
  /\ HasWorker(doc, coord.result.id)
  /\ GetWorker(doc, coord.result.id).status = "reassigned"
  /\ GetWorker(doc, coord.result.id).group = coord.arg
  /\ coord.arg # ApiGroup[coord.result.id]
  /\ LocksOf(doc, coord.result.id) = {}
  /\ \E v \in Workers \ {coord.result.id} :
       HasWorker(doc, v) /\ LocksOf(doc, v) # {}

\* C16: starting a coordinator process when a state document exists (start()
\* running initializeSystem) leaves active_workers and file_locks exactly as
\* they were: registered workers and held leases survive the (re)start.
C16_InitializeSystemIdempotent ==
  [][(coord.op = "idle" /\ coord'.result.op = "start" /\ events' # events)
       => /\ doc'.active_workers = doc.active_workers
          /\ doc'.file_locks = doc.file_locks]_vars

\* C17: the state written by the save that ends stopAllWorkers (stopAll,
\* stop) has an empty file_locks and an empty active_workers, whatever workers
\* and locks the state document held before.
C17_StopClearsLocksAndWorkers ==
  [][(coord.op = "stopAllWorkers" /\ coord.queue = <<>> /\ coord'.op = "idle")
       => /\ \A f \in Files : doc'.file_locks[f] = NoLock
          /\ doc'.active_workers = <<>>]_vars

\* stopAllWorkers has ended after it signalled a registered worker.
C17_Witness ==
  /\ coord.op = "idle"
  /\ coord.result.op = "stopAllWorkers"
  /\ coord.result.success
  /\ coord.result.id \in Workers
  /\ doc.active_workers = <<>>
  /\ \A f \in Files : doc.file_locks[f] = NoLock

\* C18: release is holder-checked and idempotent.  releaseFileLock(id, f)
\* never fails, and when f is unheld or held by another worker it starts no
\* save; WorkerCore.releaseFileLocks(files) raises no error and its copy keeps
\* every entry that does not name the worker; on every state document,
\* releasing a file a second time changes nothing, and releasing a file the id
\* does not hold changes nothing.
C18_ReleaseHolderCheckedIdempotent ==
  [][/\ (coord.op = "idle" /\ coord'.result.op = "releaseFileLock"
         /\ events' # events)
          => /\ coord'.result.success
             /\ coord'.result.releasedFiles = {}
                  => (coord'.op = "idle" /\ doc' = doc)
     /\ \A w \in Workers :
          (worker[w].pc = "release" /\ worker'[w].pc # "release")
            => /\ worker'[w].exc = worker[w].exc
               /\ worker'[w].pc = "release_save"
               /\ \A f \in Files :
                    doc.file_locks[f] # w
                      => worker'[w].state.file_locks[f] = doc.file_locks[f]
     /\ \A id \in Workers, f \in ApiFiles :
          /\ doc.file_locks[f] # id
               => (LockReleased(doc, id, f) = doc /\ Released(doc, {f}, id) = doc)
          /\ LockReleased(LockReleased(doc, id, f), id, f)
               = LockReleased(doc, id, f)
          /\ Released(Released(doc, {f}, id), {f}, id) = Released(doc, {f}, id)
    ]_vars

\* releaseFileLock was called for a file another worker holds, and a worker
\* process is in releaseFileLocks with a task file it does not hold.
C18_Witness ==
  /\ coord.op = "idle"
  /\ coord.result.op = "releaseFileLock"
  /\ coord.result.releasedFiles = {}
  /\ coord.result.lockedBy \notin {NoLock, coord.result.id}
  /\ \E w \in Workers :
       /\ worker[w].pc = "release_save"
       /\ \E f \in TaskFiles(w) :
            /\ doc.file_locks[f] # w
            /\ worker[w].state.file_locks[f] = doc.file_locks[f]

\* The groups reached from groups S through blocked_by in at most n steps.
RECURSIVE Blockers(_, _)
Blockers(S, n) ==
  IF n = 0 THEN S
  ELSE Blockers(S \cup UNION {BlockedBy(g) : g \in S}, n - 1)

\* Group g is part of a blocked_by cycle (a group listing itself included).
OnCycle(g) ==
  g \in Blockers(BlockedBy(g), Cardinality(DOMAIN dependencies))

\* C19: a configuration whose blocked_by relation has a cycle is rejected when
\* it is loaded, so no worker is ever registered for, and waiting in
\* waitForDependencies for, a group that is part of a dependency cycle.
C19_NoWorkerWaitsOnCycle ==
  \A w \in Workers :
    (worker[w].pc = "deps" /\ HasWorker(doc, w)) => ~OnCycle(groupId[w])

\* C20: the dependency wait is bounded.  A worker that polls in
\* waitForDependencies with its blocking groups not completed, and that was not
\* asked to shut down, is never in a state where nothing but its own failing
\* poll can happen: the wait ends with a timeout error, or another process can
\* still change the state.
C20_DependencyWaitBounded ==
  \A w \in Workers :
    (/\ worker[w].pc = "deps"
     /\ sd[w].pc = "none"
     /\ ~WorkerCheckDependencies(doc, dependencies, groupId[w]).canProceed)
      => ENABLED <<Next>>_vars

\* C21: once shutdown() was requested on a worker that polls in
\* waitForDependencies or waitForFileAvailability, no later poll lets it go on:
\* it does not leave waitForDependencies for executeTasks (where it writes
\* working, and completed after the loop) and does not leave
\* waitForFileAvailability with the file taken into its leases.
C21_ShutdownStopsPolling ==
  [][\A w \in Workers :
       (sd[w].pc # "none" /\ ~worker[w].isRunning)
         => /\ worker[w].pc = "deps" => worker'[w].pc = "deps"
            /\ worker[w].pc = "wait_file"
                 => (/\ worker'[w].pc \in {"wait_file", "wait_sleep"}
                     /\ worker'[w].acquiredLocks = worker[w].acquiredLocks)]_vars

\* C22: in the state in which shutdown() of a registered worker completes, no
\* file_locks entry names the worker and the status of its record is neither
\* initializing nor working.
C22_ShutdownReleasesAndMarks ==
  [][\A w \in Workers :
       (sd[w].pc # "done" /\ sd'[w].pc = "done" /\ HasWorker(doc', w))
         => /\ LocksOf(doc', w) = {}
            /\ GetWorker(doc', w).status \notin {"initializing", "working"}]_vars

\* The positions of start() between registerWithCoordinator and cleanup().
HeartbeatPhase ==
  {"deps", "exec", "exec_save", "loop", "task_save", "acquire", "wait_file",
   "wait_sleep", "acquire_save", "handler", "release", "release_save",
   "progress", "progress_save", "completed_save"}

\* C23: the heartbeat is independent of task execution.  In every state of a
\* worker between its registration and its cleanup (waiting for dependencies,
\* waiting for a file, handler running, ...) the heartbeat timer is set, and
\* unless a heartbeat is already in flight the next heartbeat can fire.
C23_HeartbeatIndependent ==
  \A w \in Workers :
    (worker[w].pc \in HeartbeatPhase /\ sd[w].pc = "none")
      => /\ worker[w].heartbeatTimer
         /\ (hb[w].pc = "idle" /\ events < MaxEvents)
              => ENABLED HeartbeatLoad(w)

\* A heartbeat is being written while the task handler runs.
C23_Witness ==
  \E w \in Workers :
    /\ worker[w].pc = "handler"
    /\ sd[w].pc = "none"
    /\ hb[w].pc = "save"
    /\ HasWorker(hb[w].state, w)
    /\ GetWorker(hb[w].state, w).status = "working"

\* The status values the specification lists for a worker record.
SpecStatuses ==
  {"initializing", "working", "waiting", "standby", "stale", "completed",
   "error", "stopping", "reassigned"}

\* C24: in every committed state the status of every worker record is one of
\* initializing, working, waiting, standby, stale, completed, error, stopping,
\* reassigned.
C24_StatusDomain ==
  \A i \in 1..Len(doc.active_workers) :
    doc.active_workers[i].status \in SpecStatuses

\* C25: getSystemStatus returns healthy = true, activeWorkers = the number of
\* records in active_workers, fileLocks = the number of entries in file_locks
\* and workers = the list of records, and leaves the document as it is; called
\* right after n registrations on a started coordinator it reports
\* activeWorkers = n.
C25_SystemStatusReadOnly ==
  [][(coord.op = "idle" /\ coord'.result.op = "getSystemStatus"
      /\ events' # events)
       => LET status == coord'.result.status
          IN /\ status.healthy
             /\ status.activeWorkers = Len(doc.active_workers)
             /\ status.activeWorkers
                  = Cardinality({w \in Workers : HasWorker(doc, w)})
             /\ status.fileLocks
                  = Cardinality({f \in Files : doc.file_locks[f] # NoLock})
             /\ status.workers = doc.active_workers
             /\ events = 0
                  => status.activeWorkers = doc.task_progress.active_groups
             /\ doc' = doc
             /\ coord'.op = "idle"]_vars

\* getSystemStatus has reported two workers and at least one lock.
C25_Witness ==
  /\ coord.result.op = "getSystemStatus"
  /\ coord.result.status.activeWorkers = 2
  /\ coord.result.status.fileLocks >= 1
  /\ Len(doc.active_workers) = 2

\* ------------------------------------------- the registry of workers
\* checkDependencies(groupId) of the coordinator: one load, nothing is written.
CheckDependencies(group) ==
  /\ coord.op = "idle"
  /\ events < MaxEvents
  /\ events' = events + 1
  /\ LET check == CoordCheckDependencies(doc, dependencies, group)
     IN coord' = [coord EXCEPT
                    !.result = [op |-> "checkDependencies", id |-> group,
                                success |-> TRUE, releasedFiles |-> {},
                                lockedBy |-> NoLock,
                                canProceed |-> check.canProceed,
                                blockers |-> check.blockers]]
  /\ UNCHANGED <<doc, dependencies, groupId, options, signals, worker, hb, sd, granted, completions, now>>

\* The group ids callers pass: two groups of the default configuration and
\* one it does not have.
RegistryGroups == {"GRUP1_TYPESCRIPT", "GRUP2_ESLINT", "TYPESCRIPT"}

RegistryStatuses == {"initializing", "working", "completed", "error"}

\* The document after registerWorker(id, group[id]) for the ids in order.
RECURSIVE RegisteredIn(_, _, _)
RegisteredIn(state, ids, group) ==
  IF ids = <<>> THEN state
  ELSE RegisteredIn(CoordRegistered(state, Head(ids), group[Head(ids)], 0),
                    Tail(ids), group)

\* The document after updateWorkerStatus(id, {status: status[id]}) for the
\* ids whose status is not the one registration gave them.
RECURSIVE StatusesAssigned(_, _, _)
StatusesAssigned(state, ids, status) ==
  IF ids = <<>> THEN state
  ELSE StatusesAssigned(
         IF status[Head(ids)] = "initializing" THEN state
         ELSE StatusAssigned(state, Head(ids), status[Head(ids)], 0, NoData),
         Tail(ids), status)

RegistryStates ==
  {StatusesAssigned(RegisteredIn(initialState, ids, group), ids, status) :
     ids \in {<<>>, <<"w1">>, <<"w2">>, <<"w1", "w2">>, <<"w2", "w1">>},
     group \in [Workers -> {"GRUP1_TYPESCRIPT", "GRUP2_ESLINT"}],
     status \in [Workers -> RegistryStatuses]}

RegistryInit ==
  \E l \in CoordinatorLaunches, state \in RegistryStates : Booted(l, state)

\* The coordinator's registry: registrations, reassignments, dependency
\* checks and the heartbeat monitor, on a document that earlier registerWorker
\* and updateWorkerStatus calls left.
RegistryNext ==
  \/ \E id \in Workers, g \in RegistryGroups : RegisterWorkerLoad(id, g)
  \/ RegisterWorkerSave
  \/ \E id \in Workers, g \in RegistryGroups : ReassignWorkerLoad(id, g)
  \/ ReassignWorkerSave
  \/ \E g \in RegistryGroups : CheckDependencies(g)
  \/ CheckWorkerHealthLoad \/ HealthStatusLoad \/ HealthStatusSave
  \/ Tick

RegistrySpec == RegistryInit /\ [][RegistryNext]_vars

\* C26: an operation naming a group id that the loaded group specs do not
\* have is rejected and writes nothing: registerWorker saves no record for
\* such a group, and reassignWorker to such a group answers success = false
\* and leaves the document as it is.
C26_UnknownGroupRejected ==
  [][/\ (coord.op = "registerWorker" /\ coord'.op = "idle")
          => \/ ~HasWorker(doc', coord.result.id)
             \/ GetWorker(doc', coord.result.id).group \in DOMAIN dependencies
     /\ (coord.op = "reassignWorker" /\ coord'.op = "idle")
          => coord.arg \in DOMAIN dependencies
     /\ (coord.op = "idle" /\ coord'.result.op = "reassignWorker"
         /\ events' # events /\ ~coord'.result.success)
          => doc' = doc /\ coord'.op = "idle"]_vars

\* C27: a successful registerWorker(id, group) for an id with no record
\* returns and stores a record with that id, that group, status initializing,
\* empty current_files and progress 0/0/null, and leaves every other worker's
\* record and file_locks as they were.
C27_RegisterFrame ==
  [][(coord.op = "registerWorker" /\ coord'.op = "idle")
       => LET id == coord.result.id
              rec == GetWorker(doc', id)
          IN /\ ~HasWorker(doc, id)
             /\ HasWorker(doc', id)
             /\ rec.id = id
             /\ rec.group = coord.arg
             /\ rec.status = "initializing"
             /\ rec.current_files = <<>>
             /\ rec.progress = [total_tasks |-> 0, completed_tasks |-> 0,
                                current_task |-> "null"]
             /\ coord.result.worker = rec
             /\ \A other \in Workers \ {id} :
                  /\ HasWorker(doc', other) = HasWorker(doc, other)
                  /\ HasWorker(doc, other)
                       => GetWorker(doc', other) = GetWorker(doc, other)
             /\ doc'.file_locks = doc.file_locks]_vars

\* A registration succeeded next to another worker's record, with a file
\* locked under the other id and one under the new id.
C27_Witness ==
  /\ coord.op = "idle"
  /\ coord.result.op = "registerWorker"
  /\ coord.result.success
  /\ HasWorker(doc, coord.result.id)
  /\ GetWorker(doc, coord.result.id) = coord.result.worker
  /\ Len(doc.active_workers) = 2
  /\ \E f \in Files : doc.file_locks[f] = coord.result.id
  /\ \E f \in Files : doc.file_locks[f] \notin {coord.result.id, NoLock}

\* C28: when a blocking group has several registered workers,
\* checkDependencies treats it as satisfied exactly when at least one of its
\* workers has status completed, whatever the order of registration and the
\* statuses of the group's other workers.
C28_AnyCompletedSatisfies ==
  [][(coord.op = "idle" /\ coord'.result.op = "checkDependencies"
      /\ events' # events)
       => LET g == coord'.result.id
              blocked_by == IF g \in DOMAIN dependencies
                               /\ "blocked_by" \in DOMAIN dependencies[g]
                            THEN dependencies[g].blocked_by ELSE <<>>
              blockers == coord'.result.blockers
              Members(b) == {i \in 1..Len(doc.active_workers) :
                               doc.active_workers[i].group = b}
          IN \A k \in 1..Len(blocked_by) :
               Cardinality(Members(blocked_by[k])) >= 2
                 => ((\A j \in 1..Len(blockers) : blockers[j] # blocked_by[k])
                      <=> \E i \in Members(blocked_by[k]) :
                            doc.active_workers[i].status = "completed")]_vars

\* C29: a checkWorkerHealth sweep never changes the status of a record whose
\* status is completed or error, however old its last heartbeat is.
C29_SweepKeepsTerminal ==
  [][(coord.op = "checkWorkerHealth_save" /\ coord'.op = "idle")
       => \A w \in Workers :
            (HasWorker(doc, w)
             /\ GetWorker(doc, w).status \in {"completed", "error"})
              => /\ HasWorker(doc', w)
                 /\ GetWorker(doc', w).status = GetWorker(doc, w).status]_vars

\* C30: when a checkWorkerHealth sweep finishes, every worker it found
\* overdue whose record is still there and was not completed or error has
\* status stale, however many workers were overdue.
C30_SweepMarksAll ==
  [][(coord.op = "checkWorkerHealth_save" /\ coord'.op = "idle")
       => \A k \in 1..Len(coord.queue) :
            LET id == coord.queue[k]
            IN (/\ HasWorker(doc, id)
                /\ HasWorker(doc', id)
                /\ GetWorker(doc, id).status \notin {"completed", "error"})
                 => GetWorker(doc', id).status = "stale"]_vars

\* C31: when the coordinator marks a worker stale (checkWorkerHealth) or
\* stopping (stopAllWorkers) it changes only the status of that record;
\* last_heartbeat, group, progress and current_files stay as they were.
C31_MarkingChangesStatusOnly ==
  [][(\/ coord.op = "checkWorkerHealth_save" /\ coord'.op = "idle"
      \/ coord.op = "stopAllWorkers_status" /\ coord'.op = "stopAllWorkers")
       => LET w == Head(coord.queue)
          IN (HasWorker(doc, w) /\ HasWorker(doc', w))
               => [GetWorker(doc', w) EXCEPT !.status = GetWorker(doc, w).status]
                    = GetWorker(doc, w)]_vars

\* ------------------------------------------- a worker process and the clock
\* One worker process with its heartbeat timer, while time passes.
TimedNext ==
  \/ \E w \in Workers : WorkerStep(w)
  \/ \E w \in Workers : TimerStep(w)
  \/ Tick

TimedSpec == JoinInit /\ [][TimedNext]_vars

\* C32: for every worker id, from one committed state to the next in which
\* its record exists (no removal between them), last_heartbeat does not
\* decrease, under every interleaving of writes.
C32_HeartbeatMonotone ==
  [][\A w \in Workers :
       (HasWorker(doc, w) /\ HasWorker(doc', w))
         => GetWorker(doc', w).last_heartbeat
              >= GetWorker(doc, w).last_heartbeat]_vars

\* C33: in every committed state, the current_files of each worker record are
\* among the files that file_locks maps to that worker.
C33_CurrentFilesLeased ==
  \A i \in 1..Len(doc.active_workers) :
    LET rec == doc.active_workers[i]
    IN \A k \in 1..Len(rec.current_files) :
         doc.file_locks[rec.current_files[k]] = rec.id

\* C34: when start() of a worker ends through its failure path (the catch ran
\* for an exception), the committed state at that moment has the worker's
\* status equal to error and no file_locks entry naming the worker.
C34_FailureEndsInError ==
  [][\A w \in Workers :
       (/\ worker[w].pc # "done"
        /\ worker'[w].pc = "done"
        /\ worker'[w].exc # NoError
        /\ HasWorker(doc', w))
         => /\ GetWorker(doc', w).status = "error"
            /\ LocksOf(doc', w) = {}]_vars

\* C35: in every committed state task_progress.active_groups equals the number
\* of worker records in active_workers and task_progress.completed_groups
\* equals the number of groups that have a completed worker.
C35_TaskProgressDerived ==
  /\ doc.task_progress.active_groups = Len(doc.active_workers)
  /\ doc.task_progress.completed_groups
       = Cardinality({doc.active_workers[i].group :
                        i \in {j \in 1..Len(doc.active_workers) :
                                 doc.active_workers[j].status = "completed"}})

\* ------------------------------------------- two workers on the same files
\* Two worker processes of groups whose tasks share a file; a failed task is
\* not retried.
SharedFilesLaunches ==
  {Launch("claude-coord.json with shared files", "GRUP3_BUNDLE", "AUDIT", 0,
          {})}

SharedFilesInit == \E l \in SharedFilesLaunches : Boot(l)

SharedFilesNext == \E w \in Workers : WorkerStep(w)

SharedFilesSpec == SharedFilesInit /\ [][SharedFilesNext]_vars

\* Worker w is inside waitForFileAvailability.
WaitingForFile(w) == worker[w].pc \in {"wait_file", "wait_sleep"}

\* The file w waits for.
AwaitedFile(w) == Task(w).files[worker[w].k]

\* C36: a worker never waits for a file while the committed state shows it
\* holding another file, so no two workers each wait for a file held by the
\* other.
C36_NoHoldAndWait ==
  /\ \A w \in Workers : WaitingForFile(w) => LocksOf(doc, w) = {}
  /\ \A w, v \in Workers :
       (w # v /\ WaitingForFile(w) /\ WaitingForFile(v))
         => ~(/\ doc.file_locks[AwaitedFile(w)] = v
              /\ doc.file_locks[AwaitedFile(v)] = w)

\* C37: a worker commits status completed only after every task generated for
\* its group has been executed successfully; when the task loop ended early
\* because isRunning became false, completed is never written.
C37_CompletedAfterAllTasks ==
  [][\A w \in Workers :
       (worker[w].pc = "completed_save" /\ worker'[w].pc # "completed_save")
         => worker[w].i >= Len(Tasks(w))]_vars

\* The step in which the catch of executeTasks receives the exception of the
\* current attempt of worker w (from the handler, after the release, or from
\* the lease wait).
AttemptFails(w) ==
  \/ /\ worker[w].pc = "release_save" /\ worker[w].exc # NoError
     /\ worker'[w].pc # "release_save"
  \/ /\ worker[w].pc = "wait_sleep"
     /\ worker'[w].pc \notin {"wait_sleep", "wait_file"}

\* C38: a task is attempted at most maxRetries + 1 times; a failure of an
\* earlier attempt starts the same task again, a failure of the last attempt
\* goes to the catch of start() with no later task started, and the worker's
\* status is then set to error.
C38_RetryBounded ==
  [][\A w \in Workers :
       /\ worker[w].pc # NotStarted => worker[w].retries <= options[w].maxRetries
       /\ AttemptFails(w)
            => /\ worker'[w].i = worker[w].i
               /\ IF worker[w].retries < options[w].maxRetries
                  THEN /\ worker'[w].pc = "loop"
                       /\ worker'[w].retries = worker[w].retries + 1
                  ELSE worker'[w].pc = "error"
       /\ (worker[w].pc = "error" /\ worker[w].exc \in {HandlerError, FileTimeout}
           /\ worker'[w].pc # "error")
            => worker'[w].pc = "error_save"
       /\ (worker[w].pc = "error_save" /\ worker'[w].pc # "error_save")
            => /\ worker'[w].pc = "cleanup"
               /\ worker'[w].i = worker[w].i
               /\ HasWorker(doc', w)
               /\ GetWorker(doc', w).status = "error"]_vars

\* C39: while the task handler of a worker is running, file_locks maps every
\* file of that task to this worker.
C39_LeaseHeldDuringHandler ==
  \A w \in Workers :
    worker[w].pc = "handler"
      => \A f \in TaskFiles(w) : doc.file_locks[f] = w

\* C40: once removeWorker(id) has committed and id was not registered again,
\* active_workers has no record of id and file_locks has no entry naming id,
\* whatever writes of running workers were in flight during the removal.
C40_RemovedStaysRemoved ==
  \A id \in Workers :
    (/\ coord.op = "idle"
     /\ coord.result.op = "removeWorker"
     /\ coord.result.success
     /\ coord.result.id = id)
      => /\ ~HasWorker(doc, id)
         /\ LocksOf(doc, id) = {}

====
